---- MODULE Spec2Model ----
(***************************************************************************)
(* Model of firmware/merge_firmware.py: the two post-build hooks           *)
(* rename_app_firmware and merge_bin_action, the version lookup they       *)
(* share, the build directory they read and write, and the external        *)
(* esptool process merge_bin_action waits for.                             *)
(***************************************************************************)
EXTENDS Naturals, Sequences, FiniteSets, TLC

\* ------------------------------------------------------------------ bounds
MaxLen == 1       \* longest firmware.bin, in bytes
MaxDefines == 1   \* most #define lines in include/config.h
MaxRuns == 2      \* builds of the same build directory

\* ------------------------------------------------------- build directory
Bytes == 0..1
Contents == UNION {[1..k -> Bytes] : k \in 0..MaxLen}
BootImage == <<1, 0>>
PartImage == <<0, 1, 1>>

BOOTLOADER == "bootloader.bin"
PARTITIONS == "partitions.bin"
FIRMWARE == "firmware.bin"

\* os.path.exists and os.path.getsize on a file of the build directory
Exists(fs, name) == name \in DOMAIN fs
GetSize(fs, name) == Len(fs[name])

\* Variant: an existing destination is left as it is.
Copy2KeepExisting(fs, src, dst) ==
    IF dst \in DOMAIN fs THEN fs
    ELSE [n \in DOMAIN fs \cup {dst} |-> IF n = dst THEN fs[src] ELSE fs[n]]

\* shutil.copy2(src, dst): dst is created or overwritten, src is untouched
Copy2(fs, src, dst) ==
    [n \in DOMAIN fs \cup {dst} |-> IF n = dst THEN fs[src] ELSE fs[n]]

\* a file written by the external tool
WriteFile(fs, name, data) ==
    [n \in DOMAIN fs \cup {name} |-> IF n = name THEN data ELSE fs[n]]

\* ---------------------------------------------------- include/config.h
\* A line is '#define <name> "<value>"'; value is the text between the quotes.
DefineLines ==
    { [name |-> "FIRMWARE_VERSION", value |-> "1.2.3"],
      [name |-> "FIRMWARE_VERSION", value |-> "2.0.0"],
      [name |-> "FIRMWARE_VERSION", value |-> ""],
      [name |-> "DEVICE_NAME", value |-> "blind"] }
ConfigTexts == UNION {[1..k -> DefineLines] : k \in 0..MaxDefines}
Configs == {[readable |-> FALSE, lines |-> <<>>]}
              \cup {[readable |-> TRUE, lines |-> t] : t \in ConfigTexts}

\* #define\s+FIRMWARE_VERSION\s+"([^"]+)" : the name is fixed and the quoted
\* text has at least one character
Matches(line) == line.name = "FIRMWARE_VERSION" /\ line.value # ""

\* re.search: the leftmost match, or none
Search(lines) ==
    LET hits == {i \in 1..Len(lines) : Matches(lines[i])}
    IN  IF hits = {} THEN <<>>
        ELSE <<lines[CHOOSE i \in hits : \A j \in hits : i <= j].value>>

\* What open() and re.search made of the file, for the record.
ReadKind(cfg) ==
    IF ~cfg.readable THEN "unreadable"
    ELSE IF \E i \in 1..Len(cfg.lines) : Matches(cfg.lines[i]) THEN "defined"
    ELSE "undefined"

\* ---------------------------------------------------------------- output
Msg(kind, name, size, text) ==
    [kind |-> kind, name |-> name, size |-> size, text |-> text]

WarnVersion == Msg("WarnVersion", "", 0, "Could not read version from config.h")
WarnSkip == Msg("WarnSkip", "", 0, "Not all firmware files exist, skipping merge")

\* -------------------------------------------------- get_firmware_version
\* The value returned and what was printed on the way.  Each call opens
\* include/config.h afresh: cfg is the file as that call finds it.
get_firmware_version(cfg) ==
    IF ~cfg.readable
    THEN [version |-> "unknown", out |-> <<WarnVersion>>]
    ELSE LET match == Search(cfg.lines)
         IN  IF match # <<>>
             THEN [version |-> match[1], out |-> <<>>]
             ELSE [version |-> "unknown", out |-> <<>>]

\* ---------------------------------------------------------- output names
\* Variant: the unversioned name of the single-image hook.
AppNameUnversioned(version) == "app-firmware.bin"

AppName(version) == "app-firmware-" \o version \o ".bin"
SetupName(version) == "setup-firmware-" \o version \o ".bin"

VARIABLES
    files,          \* build directory: file name -> content
    run,            \* number of the current build
    renamePc,       \* rename_app_firmware: NotStarted, Returned, Raised
    renameRead,     \* how rename_app_firmware found include/config.h
    renameVersion,  \* version resolved by rename_app_firmware
    renameOut,      \* what rename_app_firmware printed
    mergePc,        \* merge_bin_action's state
    mergeRead,      \* how merge_bin_action found include/config.h
    mergeVersion,   \* version resolved by merge_bin_action
    mergeOut,       \* what merge_bin_action printed
    cmd,            \* <<>> or <<the merge command built>>
    proc,           \* the external esptool process
    toolCalls,      \* subprocess.run calls of this invocation
    written,        \* names written in the build directory by this build
    prev            \* <<>> or <<summary of the previous build>>

vars == <<files, run, renamePc, renameRead, renameVersion, renameOut, mergePc,
          mergeRead, mergeVersion, mergeOut, cmd, proc, toolCalls, written, prev>>

\* An output an earlier build of older sources may have left behind.
StaleOutput == AppName("1.2.3")

NoProc == [state |-> "none", returncode |-> 0, stderr |-> ""]

Init ==
    /\ \E f \in Contents, old \in Contents,
          present \in SUBSET {BOOTLOADER, PARTITIONS, FIRMWARE, StaleOutput} :
          files = [n \in present |->
                      IF n = BOOTLOADER THEN BootImage
                      ELSE IF n = PARTITIONS THEN PartImage
                      ELSE IF n = FIRMWARE THEN f ELSE old]
    /\ run = 1
    /\ renamePc = "NotStarted" /\ renameRead = "" /\ renameVersion = ""
    /\ renameOut = <<>>
    /\ mergePc = "NotStarted" /\ mergeRead = "" /\ mergeVersion = ""
    /\ mergeOut = <<>>
    /\ cmd = <<>> /\ proc = NoProc /\ toolCalls = 0
    /\ written = {} /\ prev = <<>>

\* ---------------------------------------------------- rename_app_firmware
\* Variant: the test looks at the wrong file.
CanRenameBootloader(fs) == Exists(fs, BOOTLOADER)

\* Variant: the copy waits for the whole artifact set.
CanRenameAll(fs) ==
    Exists(fs, BOOTLOADER) /\ Exists(fs, PARTITIONS) /\ Exists(fs, FIRMWARE)

\* Line 28: the test that decides whether the copy is made.
CanRename(fs) == Exists(fs, FIRMWARE)

\* shutil.copy2 either completes or raises OSError (always, on a missing
\* source), which nothing catches.
CopyOutcomes(fs, src) == IF Exists(fs, src) THEN BOOLEAN ELSE {FALSE}

rename_app_firmware ==
    /\ renamePc = "NotStarted"
    /\ \E cfg \in Configs :
       LET r == get_firmware_version(cfg)
           version == r.version
           firmware_src == FIRMWARE
           firmware_dst == AppName(version)
       IN  /\ renameRead' = ReadKind(cfg)
           /\ renameVersion' = version
           /\ IF CanRename(files)
              THEN \E copyOk \in CopyOutcomes(files, firmware_src) :
                     IF copyOk
                     THEN /\ files' = Copy2(files, firmware_src, firmware_dst)
                          /\ written' = written \cup {firmware_dst}
                          /\ renameOut' = r.out \o
                               <<Msg("CreatedApp", firmware_dst,
                                     GetSize(files', firmware_dst), "")>>
                          /\ renamePc' = "Returned"
                     ELSE /\ renameOut' = r.out
                          /\ renamePc' = "Raised"
                          /\ UNCHANGED <<files, written>>
              ELSE /\ renameOut' = r.out
                   /\ renamePc' = "Returned"
                   /\ UNCHANGED <<files, written>>
    /\ UNCHANGED <<run, mergePc, mergeRead, mergeVersion, mergeOut, cmd, proc,
                   toolCalls, prev>>

\* ------------------------------------------------------- merge_bin_action
\* Variant: the partition table is left out of the check.
PrerequisitesNoPartitions == <<BOOTLOADER, FIRMWARE>>

\* The files that must all exist before the merge is attempted.
Prerequisites == <<BOOTLOADER, PARTITIONS, FIRMWARE>>

AllExist(fs, names) == \A i \in 1..Len(names) : Exists(fs, names[i])

\* Flash offsets 0x0, 0x8000 and 0x10000 of the command line.
BootloaderOffset == 0
PartitionsOffset == 32768
FirmwareOffset == 65536

\* Variant: the partition table and the application change places.
BuildCmdSwapped(version) ==
    [ chip |-> "esp32c3",
      action |-> "merge_bin",
      output |-> SetupName(version),
      flash_mode |-> "dio",
      flash_size |-> "4MB",
      segments |-> << [offset |-> BootloaderOffset, file |-> BOOTLOADER],
                      [offset |-> PartitionsOffset, file |-> FIRMWARE],
                      [offset |-> FirmwareOffset, file |-> PARTITIONS] >> ]

\* The esptool command line, by its arguments.
BuildCmd(version) ==
    [ chip |-> "esp32c3",
      action |-> "merge_bin",
      output |-> SetupName(version),
      flash_mode |-> "dio",
      flash_size |-> "4MB",
      segments |-> << [offset |-> BootloaderOffset, file |-> BOOTLOADER],
                      [offset |-> PartitionsOffset, file |-> PARTITIONS],
                      [offset |-> FirmwareOffset, file |-> FIRMWARE] >> ]

\* Lines 35-42: the build directory, the version and the four paths.
merge_resolve ==
    /\ renamePc = "Returned"
    /\ mergePc = "NotStarted"
    /\ \E cfg \in Configs :
       LET r == get_firmware_version(cfg)
       IN  /\ mergeRead' = ReadKind(cfg)
           /\ mergeVersion' = r.version
           /\ mergeOut' = r.out
    /\ mergePc' = "Validating"
    /\ UNCHANGED <<files, run, renamePc, renameRead, renameVersion, renameOut,
                   cmd, proc, toolCalls, written, prev>>

\* Lines 45-56: the existence check, then either the warning and the return,
\* or the command and the start of the external process.
merge_validate ==
    /\ mergePc = "Validating"
    /\ IF ~AllExist(files, Prerequisites)
       THEN /\ mergeOut' = Append(mergeOut, WarnSkip)
            /\ mergePc' = "Skipped"
            /\ UNCHANGED <<cmd, proc, toolCalls>>
       ELSE /\ cmd' = <<BuildCmd(mergeVersion)>>
            /\ mergeOut' = Append(mergeOut,
                                  Msg("Creating", SetupName(mergeVersion), 0, ""))
            /\ proc' = [state |-> "running", returncode |-> 0, stderr |-> ""]
            /\ toolCalls' = toolCalls + 1
            /\ mergePc' = "Merging"
    /\ UNCHANGED <<files, run, renamePc, renameRead, renameVersion, renameOut,
                   mergeRead, mergeVersion, written, prev>>

\* The image the tool lays out: the segments in ascending offset order
\* (the padding between them is left out).
RECURSIVE Merged(_, _)
Merged(fs, segments) ==
    IF segments = <<>> THEN <<>>
    ELSE fs[Head(segments).file] \o Merged(fs, Tail(segments))

\* How the external process can end: exit code, and whether it left the
\* output file behind.  It cannot succeed on a segment file it cannot read.
ToolOutcomes(fs, c) ==
    IF \A i \in 1..Len(c.segments) : Exists(fs, c.segments[i].file)
    THEN [returncode : {0, 2}, wrote : BOOLEAN]
    ELSE {[returncode |-> 2, wrote |-> FALSE]}

\* Line 56: the process started by subprocess.run terminates.
esptool_exit ==
    /\ mergePc = "Merging"
    /\ proc.state = "running"
    /\ \E o \in ToolOutcomes(files, cmd[1]) :
          /\ proc' = [state |-> "exited", returncode |-> o.returncode,
                      stderr |-> IF o.returncode = 0 THEN ""
                                 ELSE "esptool: error"]
          /\ IF o.wrote
             THEN /\ files' = WriteFile(files, cmd[1].output,
                                        Merged(files, cmd[1].segments))
                  /\ written' = written \cup {cmd[1].output}
             ELSE UNCHANGED <<files, written>>
    /\ UNCHANGED <<run, renamePc, renameRead, renameVersion, renameOut, mergePc,
                   mergeRead, mergeVersion, mergeOut, cmd, toolCalls, prev>>

\* Lines 58-65: subprocess.run has returned.  os.path.getsize raises OSError
\* on a missing file, and nothing catches it.
merge_report ==
    /\ mergePc = "Merging"
    /\ proc.state = "exited"
    /\ LET output == SetupName(mergeVersion)
       IN  IF proc.returncode = 0
           THEN IF Exists(files, output)
                THEN /\ mergeOut' = mergeOut \o
                          << Msg("CreatedSetup", output, GetSize(files, output), ""),
                             Msg("ListApp", AppName(mergeVersion), 0, ""),
                             Msg("ListSetup", SetupName(mergeVersion), 0, "") >>
                     /\ mergePc' = "Succeeded"
                ELSE /\ mergePc' = "Raised"
                     /\ UNCHANGED mergeOut
           ELSE /\ mergeOut' = Append(mergeOut, Msg("Error", "", 0, proc.stderr))
                /\ mergePc' = "Failed"
    /\ UNCHANGED <<files, run, renamePc, renameRead, renameVersion, renameOut,
                   mergeRead, mergeVersion, cmd, proc, toolCalls, written, prev>>

\* ------------------------------------------------------------ environment
BuildOver ==
    \/ renamePc = "Raised"
    \/ mergePc \in {"Skipped", "Succeeded", "Failed", "Raised"}

\* The post-actions of firmware.bin run again on the same build directory.
NextBuild ==
    /\ BuildOver
    /\ run < MaxRuns
    /\ run' = run + 1
    /\ prev' = << [appVersion |-> renameVersion, setupVersion |-> mergeVersion,
                   written |-> written, names |-> DOMAIN files] >>
    /\ UNCHANGED files
    /\ renamePc' = "NotStarted" /\ renameRead' = "" /\ renameVersion' = ""
    /\ renameOut' = <<>>
    /\ mergePc' = "NotStarted" /\ mergeRead' = "" /\ mergeVersion' = ""
    /\ mergeOut' = <<>>
    /\ cmd' = <<>> /\ proc' = NoProc /\ toolCalls' = 0
    /\ written' = {}

Next ==
    \/ rename_app_firmware
    \/ merge_resolve
    \/ merge_validate
    \/ esptool_exit
    \/ merge_report
    \/ NextBuild

Spec == Init /\ [][Next]_vars

\* ================================================================ claims
Last(seq) == seq[Len(seq)]
Kinds(seq) == {seq[i].kind : i \in 1..Len(seq)}
AllThree == {BOOTLOADER, PARTITIONS, FIRMWARE}
MergeDecided == mergePc \notin {"NotStarted", "Validating"}

\* C1: merge_bin_action starts the external tool if and only if
\* bootloader.bin, partitions.bin and firmware.bin all exist when it checks;
\* with any of them missing it prints the "not all firmware files exist"
\* warning and returns without building a command or starting the tool.
C1_MergeIffAllExist ==
    MergeDecided =>
        /\ (toolCalls > 0) <=> (AllThree \subseteq DOMAIN files)
        /\ ~(AllThree \subseteq DOMAIN files) =>
              /\ mergePc = "Skipped"
              /\ Last(mergeOut).kind = "WarnSkip"
              /\ cmd = <<>>
              /\ proc.state = "none"

\* partitions.bin alone is missing and the merge was skipped.
C1_Witness ==
    /\ mergePc = "Skipped"
    /\ DOMAIN files \cap AllThree = {BOOTLOADER, FIRMWARE}

\* C2: once rename_app_firmware has returned, firmware.bin existing means
\* app-firmware-{version}.bin exists and was written by this build, whatever
\* the state of bootloader.bin and partitions.bin; and with either of those
\* missing the merge is skipped without the tool being started.
C2_OtaIndependent ==
    /\ (renamePc = "Returned" /\ FIRMWARE \in DOMAIN files) =>
          /\ ("app-firmware-" \o renameVersion \o ".bin") \in DOMAIN files
          /\ ("app-firmware-" \o renameVersion \o ".bin") \in written
    /\ (MergeDecided /\ ~({BOOTLOADER, PARTITIONS} \subseteq DOMAIN files)) =>
          mergePc = "Skipped" /\ toolCalls = 0

\* Both hooks ran with partitions.bin missing: the app image is there, the
\* merge was skipped.
C2_Witness ==
    /\ mergePc = "Skipped"
    /\ DOMAIN files \cap AllThree = {BOOTLOADER, FIRMWARE}
    /\ renameVersion = "1.2.3"
    /\ "app-firmware-1.2.3.bin" \in written

\* C5: a merge command, once built, has the segments (0x0, bootloader.bin),
\* (0x8000, partitions.bin), (0x10000, firmware.bin) in that order, the
\* output setup-firmware-{version}.bin, and the fixed chip, flash mode and
\* flash size, whatever the version and the file sizes.
C5_FixedLayout ==
    cmd # <<>> =>
        /\ cmd[1].segments = << [offset |-> 0, file |-> "bootloader.bin"],
                                [offset |-> 32768, file |-> "partitions.bin"],
                                [offset |-> 65536, file |-> "firmware.bin"] >>
        /\ cmd[1].output = "setup-firmware-" \o mergeVersion \o ".bin"
        /\ cmd[1].chip = "esp32c3"
        /\ cmd[1].action = "merge_bin"
        /\ cmd[1].flash_mode = "dio"
        /\ cmd[1].flash_size = "4MB"

\* A command built for the sentinel version and an empty firmware.bin.
C5_Witness ==
    /\ cmd # <<>>
    /\ mergeVersion = "unknown"
    /\ files[FIRMWARE] = <<>>

\* C6: a call of rename_app_firmware that finds firmware.bin and returns
\* leaves app-firmware-{version}.bin with the content firmware.bin had,
\* whatever was under that name before, changes no other file, and reports
\* the size of firmware.bin.
C6_ByteIdenticalCopy ==
    [][ (renamePc = "NotStarted" /\ renamePc' = "Returned"
            /\ FIRMWARE \in DOMAIN files) =>
          LET dst == "app-firmware-" \o renameVersion' \o ".bin"
          IN  /\ DOMAIN files' = DOMAIN files \cup {dst}
              /\ files'[dst] = files[FIRMWARE]
              /\ \A n \in DOMAIN files : n # dst => files'[n] = files[n]
              /\ Last(renameOut') =
                    Msg("CreatedApp", dst, Len(files[FIRMWARE]), "") ]_vars

\* The second build's copy replaced the app-firmware-1.2.3.bin the first left.
C6_Witness ==
    /\ run = 2
    /\ renamePc = "Returned"
    /\ renameVersion = "1.2.3"
    /\ "app-firmware-1.2.3.bin" \in prev[1].names
    /\ FIRMWARE \in DOMAIN files
    /\ files[FIRMWARE] = <<1>>
    /\ files["app-firmware-1.2.3.bin"] = <<1>>
    /\ Last(renameOut).size = 1

\* C3: neither hook ever ends by raising, whatever the copy, the tool's exit
\* code and the output-size read do, and the report of a nonzero exit holds
\* the captured error text.
C3_NeverRaises ==
    /\ renamePc # "Raised"
    /\ mergePc # "Raised"
    /\ mergePc = "Failed" => Last(mergeOut).text = proc.stderr

\* The tool exited zero, left no output file, and merge_bin_action raised.
C3_Witness ==
    /\ mergePc = "Raised"
    /\ proc.returncode = 0
    /\ ("setup-firmware-" \o mergeVersion \o ".bin") \notin DOMAIN files

\* C4: a version file that cannot be read, or that holds no FIRMWARE_VERSION
\* definition, gives each hook the version "unknown" together with a
\* warning.
C4_SentinelWithWarning ==
    /\ renameRead \in {"unreadable", "undefined"} =>
          renameVersion = "unknown" /\ "WarnVersion" \in Kinds(renameOut)
    /\ mergeRead \in {"unreadable", "undefined"} =>
          mergeVersion = "unknown" /\ "WarnVersion" \in Kinds(mergeOut)

\* A readable file without the definition gave "unknown" and no warning.
C4_Witness ==
    /\ renameRead = "undefined"
    /\ renameVersion = "unknown"
    /\ renameOut = <<>>

\* C7 as stated: with firmware.bin missing, rename_app_firmware returns
\* having written no file and printed nothing, however it found the version
\* file.
C7_SilentNoOp ==
    (renamePc # "NotStarted" /\ FIRMWARE \notin DOMAIN files) =>
        /\ renamePc = "Returned"
        /\ written = {}
        /\ renameOut = <<>>

\* C7, amended: with firmware.bin missing, rename_app_firmware returns
\* leaving every file as it was, and prints nothing but the warning of
\* get_firmware_version: always when the version file is unreadable, never
\* when it holds a definition.
C7_NoOpButVersionWarning ==
    [][ (renamePc = "NotStarted" /\ renamePc' # "NotStarted"
            /\ FIRMWARE \notin DOMAIN files) =>
          /\ renamePc' = "Returned"
          /\ files' = files
          /\ written' = written
          /\ Kinds(renameOut') \subseteq {"WarnVersion"}
          /\ renameRead' = "unreadable" => renameOut' = <<WarnVersion>>
          /\ renameRead' = "defined" => renameOut' = <<>> ]_vars

\* firmware.bin is missing, the version file unreadable: the warning is all
\* the hook printed, and no file was written.
C7_Witness ==
    /\ renamePc = "Returned"
    /\ FIRMWARE \notin DOMAIN files
    /\ BOOTLOADER \in DOMAIN files
    /\ renameRead = "unreadable"
    /\ renameOut = <<WarnVersion>>
    /\ written = {}

\* The name of an output, as a function of its kind and the version.
ExpectedName(kind, version) == kind \o "-firmware-" \o version \o ".bin"

SameVersionsAsBefore ==
    /\ prev # <<>>
    /\ renameVersion = prev[1].appVersion
    /\ mergeVersion = prev[1].setupVersion

\* C8: a build writes only app-firmware-{version}.bin and
\* setup-firmware-{version}.bin; a second build resolving the same versions
\* writes under the first build's names and, when the first wrote both,
\* leaves the set of file names as it was; the version "unknown" gives
\* app-firmware-unknown.bin and setup-firmware-unknown.bin like any other.
C8_IdempotentNaming ==
    /\ written \subseteq {ExpectedName("app", renameVersion),
                          ExpectedName("setup", mergeVersion)}
    /\ (BuildOver /\ SameVersionsAsBefore) =>
          /\ written \subseteq {ExpectedName("app", prev[1].appVersion),
                                ExpectedName("setup", prev[1].setupVersion)}
          /\ Cardinality(prev[1].written) = 2 => DOMAIN files = prev[1].names
    /\ (renamePc = "Returned" /\ renameVersion = "unknown"
           /\ FIRMWARE \in DOMAIN files) =>
          "app-firmware-unknown.bin" \in written
    /\ (mergePc = "Succeeded" /\ mergeVersion = "unknown") =>
          "setup-firmware-unknown.bin" \in DOMAIN files

\* The second build, of the same unresolved version, wrote the two files
\* the first had written and no other.
C8_Witness ==
    /\ run = 2
    /\ mergePc = "Succeeded"
    /\ SameVersionsAsBefore
    /\ renameVersion = "unknown"
    /\ written = {"app-firmware-unknown.bin", "setup-firmware-unknown.bin"}
    /\ prev[1].written = written
    /\ DOMAIN files = prev[1].names

\* The steps of one invocation of merge_bin_action.
MergeSteps ==
    { <<"NotStarted", "Validating">>,
      <<"Validating", "Skipped">>, <<"Validating", "Merging">>,
      <<"Merging", "Succeeded">>, <<"Merging", "Failed">> }

\* C9: an invocation of merge_bin_action goes NotStarted, Validating, then
\* Skipped or Merging, then Succeeded or Failed, and takes no other step; it
\* starts the tool at most once, enters Merging only with all three files
\* present, does not leave Merging while the tool runs, and ends Succeeded
\* exactly on exit code zero and Failed exactly on a nonzero one.
C9_StateMachine ==
    [][ /\ mergePc' # mergePc =>
              \/ <<mergePc, mergePc'>> \in MergeSteps
              \/ run' # run /\ mergePc' = "NotStarted"
        /\ toolCalls' <= 1
        /\ mergePc' = "Merging" => AllThree \subseteq DOMAIN files'
        /\ proc'.state = "running" => mergePc' = "Merging"
        /\ (mergePc = "Merging" /\ mergePc' # "Merging") =>
              /\ proc.state = "exited"
              /\ (mergePc' = "Succeeded") <=> (proc.returncode = 0)
              /\ (mergePc' = "Failed") <=> (proc.returncode # 0) ]_vars

\* Names listed as build outputs by merge_bin_action.
Listed ==
    {mergeOut[i].name : i \in {j \in 1..Len(mergeOut) :
                                 mergeOut[j].kind \in {"ListApp", "ListSetup"}}}

\* C10: when merge_bin_action reports success, the two files it lists exist,
\* were written by this build, and carry the version rename_app_firmware
\* resolved.
C10_ListedOutputsExist ==
    mergePc = "Succeeded" =>
        /\ Listed = {ExpectedName("app", renameVersion),
                     ExpectedName("setup", mergeVersion)}
        /\ Listed \subseteq DOMAIN files
        /\ Listed \subseteq written
        /\ renameVersion = mergeVersion

\* The version file changed between the hooks: app-firmware-2.0.0.bin is
\* listed and does not exist.
C10_Witness ==
    /\ mergePc = "Succeeded"
    /\ renameVersion = "1.2.3"
    /\ mergeVersion = "2.0.0"
    /\ "app-firmware-2.0.0.bin" \in Listed
    /\ "app-firmware-2.0.0.bin" \notin DOMAIN files
====
